---- MODULE Spec2Model ----
(***************************************************************************)
(* The cash ledger and the transfer approval workflow of                   *)
(* backend/server.py: the handlers create_sale, record_credit_payment,     *)
(* create_transfer_request and approve_transfer, run by concurrent         *)
(* requests against the shared collections users, sales, credit_payments   *)
(* and transfers.                                                          *)
(*                                                                         *)
(* Every awaited storage call that reads or writes a value another request *)
(* can change is one atomic step.  The code a handler runs between two     *)
(* awaits touches only its own locals and is part of the step of the       *)
(* storage call before it.  Lookups of data no handler ever changes (the   *)
(* existence and the id of a user) and the final find_one of               *)
(* approve_transfer, whose result only fills the response body, are part   *)
(* of a neighbouring step.  Amounts are whole currency units.              *)
(***************************************************************************)
EXTENDS Integers, Sequences, FiniteSets, TLC

\* ------------------------------------------------------------------ bounds
\* requests that are started in one behaviour
MaxReq == 3
\* request workers that run at the same time
NProcs == 2
\* documents the sales and credit_payments collections may hold
MaxSales == 2
MaxPayments == 2

Procs == 1..NProcs

\* the registered users (register is outside the model: the accounts exist)
Managers == {"M1", "M2", "M3"}
\* an id that no user document carries
NoUser == "M9"

\* approved_at of a transfer that was never decided
None == 0

VARIABLES
  cash_balance,     \* users: id -> cash_balance
  transfers,        \* the transfers collection, in insertion order
  sales,            \* the sales collection, in insertion order
  credit_payments,  \* the credit_payments collection, in insertion order
  pc,               \* worker -> the storage call its handler runs next
  req,              \* worker -> the request it serves (path, body, bearer)
  loc,              \* worker -> the document its handler has read
  response,         \* the response sent last: the handler and its answer
  clock,            \* datetime.utcnow(), in ticks
  nreq,             \* requests started so far
  applied           \* history: per transfer, the $inc calls run for it

vars == <<cash_balance, transfers, sales, credit_payments, pc, req, loc, response, clock, nreq, applied>>

dbVars == <<cash_balance, transfers, sales, credit_payments, applied>>

\* ------------------------------------------------------------ pure helpers

\* new_status + "d" of approve_transfer
StatusOf(action) == action \o "d"

\* f"SALE-{count:06d}"
SaleNumber(count) ==
  LET digits == ToString(count)
      pad == IF count < 10 THEN "00000"
             ELSE IF count < 100 THEN "0000"
             ELSE IF count < 1000 THEN "000"
             ELSE IF count < 10000 THEN "00"
             ELSE IF count < 100000 THEN "0"
             ELSE ""
  IN "SALE-" \o pad \o digits

\* "settled" if new_paid_amount >= sale["total_amount"] else "partial"
PaymentStatus(new_paid_amount, total_amount) ==
  IF new_paid_amount >= total_amount THEN "settled" ELSE "partial"

\* the status a new sale is stored with
NewSaleStatus(payment_type) == IF payment_type = "cash" THEN "settled" ELSE "pending"

\* a new sale stored with nothing paid, whatever its payment type
MutNewSalePaidZero(payment_type, total_amount) == 0

\* the paid_amount a new sale is stored with
NewSalePaid(payment_type, total_amount) == IF payment_type = "cash" THEN total_amount ELSE 0

\* a worker that serves no request: nothing read, no request, and no response yet
NoDoc == [id |-> 0]
NoReq == [op |-> "none", actor |-> NoUser, target |-> NoUser, ref |-> 0,
          amount |-> 0, word |-> ""]
NoResponse == [op |-> "none", answer |-> "none"]

Free(p) == pc[p] = "idle"
Quiescent == \A p \in Procs : Free(p)

\* ------------------------------------------------------------------- Init
Init ==
  /\ cash_balance = [m \in Managers |-> 0]
  /\ transfers = << >>
  /\ sales = << >>
  /\ credit_payments = << >>
  /\ pc = [p \in Procs |-> "idle"]
  /\ req = [p \in Procs |-> NoReq]
  /\ loc = [p \in Procs |-> NoDoc]
  /\ response = NoResponse
  /\ clock = 0
  /\ nreq = 0
  /\ applied = << >>

\* ------------------------------------------------------- request plumbing

\* get_current_user: the bearer's user document
get_current_user(user_id) == [id |-> user_id, cash_balance |-> cash_balance[user_id]]

\* a worker takes up a request of an authenticated manager
Arrive(p, actor) ==
  /\ nreq < MaxReq
  /\ nreq' = nreq + 1
  /\ Free(p)
  /\ actor \in Managers

\* the handler goes on to its next storage call, holding doc
Proceed(p, r, doc, next) ==
  /\ pc' = [pc EXCEPT ![p] = next]
  /\ req' = [req EXCEPT ![p] = r]
  /\ loc' = [loc EXCEPT ![p] = doc]
  /\ UNCHANGED response

\* the handler returns or raises: the response is sent, the locals are dropped
Respond(p, op, answer) ==
  /\ pc' = [pc EXCEPT ![p] = "idle"]
  /\ response' = [op |-> op, answer |-> answer]
  /\ req' = [req EXCEPT ![p] = NoReq]
  /\ loc' = [loc EXCEPT ![p] = NoDoc]

Goto(p, next) ==
  /\ pc' = [pc EXCEPT ![p] = next]
  /\ UNCHANGED <<req, loc, response>>

\* ------------------------------------------- POST /transfers (lines 417-445)

\* the comparison with its operands swapped
MutInsufficientSwapped(balance, amount) == amount < balance

\* the sufficiency check of create_transfer_request
Insufficient(balance, amount) == balance < amount

\* what create_transfer_request answers before it writes anything
RequestCheck(current_user, to_user_id, amount) ==
  IF Insufficient(current_user.cash_balance, amount) THEN "InsufficientBalance"
  ELSE IF to_user_id \notin Managers THEN "NotFound"
  ELSE "proceed"

\* the request arrives: get_current_user reads the sender's user document,
\* the handler checks it and looks the recipient up
TransferStart(p, actor, to, amount) ==
  /\ Arrive(p, actor)
  /\ LET answer == RequestCheck(get_current_user(actor), to, amount)
         r == [NoReq EXCEPT !.op = "create_transfer_request", !.actor = actor,
                            !.target = to, !.amount = amount]
     IN IF answer # "proceed"
          THEN Respond(p, r.op, answer)
          ELSE Proceed(p, r, NoDoc, "t_insert")
  /\ UNCHANGED <<dbVars, clock>>

\* the document create_transfer_request builds
NewTransfer(from, to, amount) ==
  [from_user_id |-> from, to_user_id |-> to, amount |-> amount,
   status |-> "pending", approved_at |-> None]

\* db.transfers.insert_one(transfer_dict)
TransferInsert(p) ==
  /\ pc[p] = "t_insert"
  /\ transfers' = Append(transfers, NewTransfer(req[p].actor, req[p].target, req[p].amount))
  /\ applied' = Append(applied, [debits |-> 0, credits |-> 0])
  /\ Respond(p, req[p].op, "ok")
  /\ UNCHANGED <<cash_balance, sales, credit_payments, clock, nreq>>

\* ---------------------------- POST /transfers/{id}/approve (lines 457-494)

\* the checks without the one on the status
MutDecideCheckNoStatus(transfer, actor) ==
  IF transfer.to_user_id # actor THEN "Forbidden" ELSE "proceed"

\* the checks with the sender let through as well
MutDecideCheckSender(transfer, actor) ==
  IF transfer.to_user_id # actor /\ transfer.from_user_id # actor THEN "Forbidden"
  ELSE IF transfer.status # "pending" THEN "InvalidState"
  ELSE "proceed"

\* the checks with the status looked at before the recipient
MutDecideCheckStatusFirst(transfer, actor) ==
  IF transfer.status # "pending" THEN "InvalidState"
  ELSE IF transfer.to_user_id # actor THEN "Forbidden"
  ELSE "proceed"

\* the checks with the sender's balance compared once more at approval
MutDecideCheckBalance(transfer, actor) ==
  IF transfer.to_user_id # actor THEN "Forbidden"
  ELSE IF transfer.status # "pending" THEN "InvalidState"
  ELSE IF cash_balance[transfer.from_user_id] < transfer.amount THEN "InsufficientBalance"
  ELSE "proceed"

\* what approve_transfer answers to the transfer it found, before any write
DecideCheck(transfer, actor) ==
  IF transfer.to_user_id # actor THEN "Forbidden"
  ELSE IF transfer.status # "pending" THEN "InvalidState"
  ELSE "proceed"

\* the request arrives: db.transfers.find_one({"id": transfer_id}) and the checks
DecideStart(p, actor, tid, action) ==
  /\ Arrive(p, actor)
  /\ LET r == [NoReq EXCEPT !.op = "approve_transfer", !.actor = actor,
                            !.ref = tid, !.word = action]
     IN IF tid \notin 1..Len(transfers)
          THEN Respond(p, r.op, "NotFound")
          ELSE LET answer == DecideCheck(transfers[tid], actor)
               IN IF answer # "proceed"
                    THEN Respond(p, r.op, answer)
                    ELSE Proceed(p, r, transfers[tid], "d_update")
  /\ UNCHANGED <<dbVars, clock>>

\* the balance updates run only for "approve"
Approves(action) == action = "approve"

\* db.transfers.update_one: $set status and approved_at; any action but
\* "approve" then only reads the transfer again and returns it
DecideUpdate(p) ==
  /\ pc[p] = "d_update"
  /\ clock' = clock + 1
  /\ transfers' = [transfers EXCEPT ![req[p].ref].status = StatusOf(req[p].word),
                                    ![req[p].ref].approved_at = clock']
  /\ IF Approves(req[p].word)
       THEN Goto(p, "d_debit")
       ELSE Respond(p, req[p].op, "ok")
  /\ UNCHANGED <<cash_balance, sales, credit_payments, applied, nreq>>

\* the sender's $inc without its minus sign
MutDebitOfUnsigned(amount) == amount

\* the $inc the sender's balance gets
DebitOf(amount) == -amount

\* the $inc the recipient's balance gets
CreditOf(amount) == amount

\* db.users.update_one on the sender: $inc cash_balance by -amount
DecideDebit(p) ==
  /\ pc[p] = "d_debit"
  /\ cash_balance' = [cash_balance EXCEPT ![loc[p].from_user_id] = @ + DebitOf(loc[p].amount)]
  /\ applied' = [applied EXCEPT ![req[p].ref].debits = @ + 1]
  /\ Goto(p, "d_credit")
  /\ UNCHANGED <<transfers, sales, credit_payments, clock, nreq>>

\* the recipient's balance written back from a read taken before the debit:
\* when sender and recipient are one manager the debit is undone
MutDecideCreditStaleRead(p) ==
  /\ pc[p] = "d_credit"
  /\ cash_balance' = [cash_balance EXCEPT ![loc[p].to_user_id] =
        IF loc[p].from_user_id = loc[p].to_user_id
          THEN (@ - DebitOf(loc[p].amount)) + CreditOf(loc[p].amount)
          ELSE @ + CreditOf(loc[p].amount)]
  /\ applied' = [applied EXCEPT ![req[p].ref].credits = @ + 1]
  /\ Respond(p, req[p].op, "ok")
  /\ UNCHANGED <<transfers, sales, credit_payments, clock, nreq>>

\* db.users.update_one on the recipient: $inc cash_balance by amount; then
\* the transfer is read again and returned
DecideCredit(p) ==
  /\ pc[p] = "d_credit"
  /\ cash_balance' = [cash_balance EXCEPT ![loc[p].to_user_id] = @ + CreditOf(loc[p].amount)]
  /\ applied' = [applied EXCEPT ![req[p].ref].credits = @ + 1]
  /\ Respond(p, req[p].op, "ok")
  /\ UNCHANGED <<transfers, sales, credit_payments, clock, nreq>>

\* ----------------------------------------------- POST /sales (lines 322-353)

\* the request arrives: count = await db.sales.count_documents({}) + 1
SaleStart(p, actor, total_amount, payment_type) ==
  /\ Arrive(p, actor)
  /\ Len(sales) + Cardinality({q \in Procs : pc[q] = "s_insert"}) < MaxSales
  /\ Proceed(p, [NoReq EXCEPT !.op = "create_sale", !.actor = actor,
                              !.amount = total_amount, !.word = payment_type],
             [count |-> Len(sales) + 1], "s_insert")
  /\ UNCHANGED <<dbVars, clock>>

\* the document create_sale builds
NewSale(count, actor, total_amount, payment_type) ==
  [sale_number |-> SaleNumber(count), total_amount |-> total_amount,
   payment_type |-> payment_type, collected_by |-> actor,
   status |-> NewSaleStatus(payment_type),
   paid_amount |-> NewSalePaid(payment_type, total_amount)]

\* db.sales.insert_one(sale_dict); a sale that is not cash is answered here
SaleInsert(p) ==
  /\ pc[p] = "s_insert"
  /\ sales' = Append(sales, NewSale(loc[p].count, req[p].actor, req[p].amount, req[p].word))
  /\ IF req[p].word = "cash"
       THEN Goto(p, "s_inc")
       ELSE Respond(p, req[p].op, "ok")
  /\ UNCHANGED <<cash_balance, transfers, credit_payments, applied, clock, nreq>>

\* the balance written with $set in place of $inc
MutSaleIncSet(p) ==
  /\ pc[p] = "s_inc"
  /\ cash_balance' = [cash_balance EXCEPT ![req[p].actor] = req[p].amount]
  /\ Respond(p, req[p].op, "ok")
  /\ UNCHANGED <<transfers, sales, credit_payments, applied, clock, nreq>>

\* db.users.update_one: $inc cash_balance by total_amount
SaleInc(p) ==
  /\ pc[p] = "s_inc"
  /\ cash_balance' = [cash_balance EXCEPT ![req[p].actor] = @ + req[p].amount]
  /\ Respond(p, req[p].op, "ok")
  /\ UNCHANGED <<transfers, sales, credit_payments, applied, clock, nreq>>

\* -------------------------------------- POST /credit/payment (lines 369-408)

\* the payment record inserted before the sale is looked up and checked
MutPaymentStartInsertFirst(p, actor, sale_id, amount) ==
  /\ Arrive(p, actor)
  /\ Len(credit_payments) + Cardinality({q \in Procs : pc[q] = "c_insert"}) < MaxPayments
  /\ credit_payments' = Append(credit_payments,
        [sale_id |-> sale_id, amount |-> amount, collected_by |-> actor])
  /\ LET r == [NoReq EXCEPT !.op = "record_credit_payment", !.actor = actor,
                            !.ref = sale_id, !.amount = amount]
     IN IF sale_id \notin 1..Len(sales)
          THEN Respond(p, r.op, "NotFound")
          ELSE IF sales[sale_id].payment_type # "credit"
            THEN Respond(p, r.op, "InvalidState")
            ELSE Proceed(p, r, sales[sale_id], "c_update")
  /\ UNCHANGED <<cash_balance, transfers, sales, applied, clock>>

\* the request arrives: db.sales.find_one({"id": sale_id}) and the two checks
PaymentStart(p, actor, sale_id, amount) ==
  /\ Arrive(p, actor)
  /\ Len(credit_payments) + Cardinality({q \in Procs : pc[q] = "c_insert"}) < MaxPayments
  /\ LET r == [NoReq EXCEPT !.op = "record_credit_payment", !.actor = actor,
                            !.ref = sale_id, !.amount = amount]
     IN IF sale_id \notin 1..Len(sales)
          THEN Respond(p, r.op, "NotFound")
          ELSE IF sales[sale_id].payment_type # "credit"
            THEN Respond(p, r.op, "InvalidState")
            ELSE Proceed(p, r, sales[sale_id], "c_insert")
  /\ UNCHANGED <<dbVars, clock>>

\* db.credit_payments.insert_one(payment_dict)
PaymentInsert(p) ==
  /\ pc[p] = "c_insert"
  /\ credit_payments' = Append(credit_payments,
        [sale_id |-> req[p].ref, amount |-> req[p].amount, collected_by |-> req[p].actor])
  /\ Goto(p, "c_update")
  /\ UNCHANGED <<cash_balance, transfers, sales, applied, clock, nreq>>

\* db.sales.update_one: $set paid_amount and status, from the sale read before
PaymentUpdate(p) ==
  /\ pc[p] = "c_update"
  /\ LET new_paid_amount == loc[p].paid_amount + req[p].amount
         new_status == PaymentStatus(new_paid_amount, loc[p].total_amount)
     IN sales' = [sales EXCEPT ![req[p].ref].paid_amount = new_paid_amount,
                               ![req[p].ref].status = new_status]
  /\ Goto(p, "c_inc")
  /\ UNCHANGED <<cash_balance, transfers, credit_payments, applied, clock, nreq>>

\* db.users.update_one: $inc the collector's cash_balance by amount
PaymentInc(p) ==
  /\ pc[p] = "c_inc"
  /\ cash_balance' = [cash_balance EXCEPT ![req[p].actor] = @ + req[p].amount]
  /\ Respond(p, req[p].op, "ok")
  /\ UNCHANGED <<transfers, sales, credit_payments, applied, clock, nreq>>

\* ------------------------------------------------------------ the requests

\* what the clients send
\* M1 runs the till: it records the sales and collects the credit payments
Collectors == {"M1"}
SaleAmounts == {2}
PaymentTypes == {"cash", "credit"}
\* CreditPayment.amount is any number: nothing, a part and the whole of a sale
PaymentAmounts == {0, 1, 2}
TransferAmounts == {-1, 2}
\* M1 and M2 send and receive; M3 is party to no transfer and only decides
Senders == {"M1", "M2"}
Recipients == {"M1", "M2", NoUser}
TransferIds == 1..(MaxReq - 1)
SaleIds == 1..(MaxSales + 1)
\* TransferApproval.action is any string
Actions == {"approve", "reject", "cancel"}

\* the steps of the transfer engine
TransferNext ==
  \/ \E p \in Procs, actor \in Senders, to \in Recipients, amount \in TransferAmounts :
       TransferStart(p, actor, to, amount)
  \/ \E p \in Procs : TransferInsert(p)
  \/ \E p \in Procs, actor \in Managers, tid \in TransferIds, action \in Actions :
       DecideStart(p, actor, tid, action)
  \/ \E p \in Procs : DecideUpdate(p)
  \/ \E p \in Procs : DecideDebit(p)
  \/ \E p \in Procs : DecideCredit(p)

\* the steps of the sale recorder and of the credit reconciliation
SaleNext ==
  \/ \E p \in Procs, actor \in Collectors, total \in SaleAmounts, ptype \in PaymentTypes :
       SaleStart(p, actor, total, ptype)
  \/ \E p \in Procs : SaleInsert(p)
  \/ \E p \in Procs : SaleInc(p)
  \/ \E p \in Procs, actor \in Collectors, sid \in SaleIds, amount \in PaymentAmounts :
       PaymentStart(p, actor, sid, amount)
  \/ \E p \in Procs : PaymentInsert(p)
  \/ \E p \in Procs : PaymentUpdate(p)
  \/ \E p \in Procs : PaymentInc(p)

\* the sale recorder alone, from the empty database
SaleSpec == Init /\ [][SaleNext]_vars

\* The ledger once M1 has recorded a cash sale of 2 and the response was sent:
\* the state SaleSpec reaches by SaleStart(p, "M1", 2, "cash"), SaleInsert and
\* SaleInc.  The requests counted from here on are those of the transfer engine.
Funded ==
  /\ cash_balance = [m \in Managers |-> IF m = "M1" THEN 2 ELSE 0]
  /\ transfers = << >>
  /\ sales = << NewSale(1, "M1", 2, "cash") >>
  /\ credit_payments = << >>
  /\ pc = [p \in Procs |-> "idle"]
  /\ req = [p \in Procs |-> NoReq]
  /\ loc = [p \in Procs |-> NoDoc]
  /\ response = [op |-> "create_sale", answer |-> "ok"]
  /\ clock = 0
  /\ nreq = 0
  /\ applied = << >>

\* the transfer engine, run on the funded ledger
Next == TransferNext

Spec == Funded /\ [][Next]_vars

\* The funded ledger once M1 has asked to move its 2 to M2 and was answered:
\* the state Spec reaches by TransferStart(p, "M1", "M2", 2) and TransferInsert.
Pledged ==
  /\ cash_balance = [m \in Managers |-> IF m = "M1" THEN 2 ELSE 0]
  /\ transfers = << NewTransfer("M1", "M2", 2) >>
  /\ sales = << NewSale(1, "M1", 2, "cash") >>
  /\ credit_payments = << >>
  /\ pc = [p \in Procs |-> "idle"]
  /\ req = [p \in Procs |-> NoReq]
  /\ loc = [p \in Procs |-> NoDoc]
  /\ response = [op |-> "create_transfer_request", answer |-> "ok"]
  /\ clock = 0
  /\ nreq = 0
  /\ applied = << [debits |-> 0, credits |-> 0] >>

\* the decisions the recipients take in the whole-ledger runs
Decisions == {"approve", "reject"}

\* all four handlers at once: sales, credit payments, and transfers of 2
LedgerNext ==
  \/ \E p \in Procs, actor \in Senders, to \in Recipients :
       TransferStart(p, actor, to, 2)
  \/ \E p \in Procs : TransferInsert(p)
  \/ \E p \in Procs, actor \in Senders, tid \in TransferIds, action \in Decisions :
       DecideStart(p, actor, tid, action)
  \/ \E p \in Procs : DecideUpdate(p)
  \/ \E p \in Procs : DecideDebit(p)
  \/ \E p \in Procs : DecideCredit(p)
  \/ SaleNext

\* the whole ledger, run on from the pledged transfer
LedgerSpec == Pledged /\ [][LedgerNext]_vars

\* ------------------------------------------------------------- the ledger

RECURSIVE SumOver(_, _)
\* the sum of f[x] over the finite set S
SumOver(f, S) ==
  IF S = {} THEN 0
  ELSE LET x == CHOOSE y \in S : TRUE IN f[x] + SumOver(f, S \ {x})

TransferSet == 1..Len(transfers)

\* cash m took in: its cash sales and the credit payments it collected
IncomeOf(m) ==
  SumOver([i \in 1..Len(sales) |->
             IF sales[i].collected_by = m /\ sales[i].payment_type = "cash"
               THEN sales[i].total_amount ELSE 0], 1..Len(sales))
  + SumOver([i \in 1..Len(credit_payments) |->
             IF credit_payments[i].collected_by = m
               THEN credit_payments[i].amount ELSE 0], 1..Len(credit_payments))

\* what the approvals run so far moved to m and away from m
MovedTo(m) ==
  SumOver([t \in TransferSet |->
             IF transfers[t].to_user_id = m
               THEN applied[t].credits * transfers[t].amount ELSE 0], TransferSet)
MovedFrom(m) ==
  SumOver([t \in TransferSet |->
             IF transfers[t].from_user_id = m
               THEN applied[t].debits * transfers[t].amount ELSE 0], TransferSet)

TotalBalance == SumOver(cash_balance, Managers)
TotalIncome == SumOver([m \in Managers |-> IncomeOf(m)], Managers)

\* the amounts of the transfers stored as approved, to m and from m
ApprovedTo(m) ==
  SumOver([t \in TransferSet |->
             IF transfers[t].to_user_id = m /\ transfers[t].status = "approved"
               THEN transfers[t].amount ELSE 0], TransferSet)
ApprovedFrom(m) ==
  SumOver([t \in TransferSet |->
             IF transfers[t].from_user_id = m /\ transfers[t].status = "approved"
               THEN transfers[t].amount ELSE 0], TransferSet)

\* the amounts of the payment records that reference sale i
PaidInto(i) ==
  SumOver([k \in 1..Len(credit_payments) |->
             IF credit_payments[k].sale_id = i
               THEN credit_payments[k].amount ELSE 0], 1..Len(credit_payments))

\* what the calls in flight have recorded for m and not yet added to its
\* balance: a cash sale before its $inc, a credit payment before its $inc
InFlightFor(m) ==
  SumOver([p \in Procs |->
             IF req[p].actor = m /\ pc[p] \in {"s_inc", "c_update", "c_inc"}
               THEN req[p].amount ELSE 0], Procs)

\* what the approvals run so far moved between m and the other managers
MovedWithOthers(m) ==
  SumOver([t \in TransferSet |->
             IF transfers[t].from_user_id = transfers[t].to_user_id THEN 0
             ELSE IF transfers[t].to_user_id = m
               THEN applied[t].credits * transfers[t].amount
             ELSE IF transfers[t].from_user_id = m
               THEN 0 - applied[t].debits * transfers[t].amount
             ELSE 0], TransferSet)

\* m is neither sender nor recipient of any transfer
ThirdParty(m) ==
  \A t \in TransferSet : transfers[t].from_user_id # m /\ transfers[t].to_user_id # m

\* ------------------------------------------------------------- the claims

\* C1: however many approve calls the recipient makes on a transfer, also
\* concurrently, the sender is debited once and the recipient credited once.
C1_AppliedOnce ==
  \A t \in TransferSet : applied[t].debits <= 1 /\ applied[t].credits <= 1

C3_StatusDomain ==
  \A t \in TransferSet : transfers[t].status \in {"pending", "approved", "rejected"}

\* C4: once approved or rejected, a transfer keeps its status and its
\* approval time in every later step.
C4_TerminalImmutable ==
  [][\A t \in TransferSet :
       transfers[t].status \in {"approved", "rejected"} =>
         /\ transfers'[t].status = transfers[t].status
         /\ transfers'[t].approved_at = transfers[t].approved_at]_vars

\* C5: a decide call of the recipient that finds the transfer already decided
\* (approved, or rejected, whatever word the rejection was stored as) is
\* answered InvalidState and changes no balance and no transfer.
C5_TerminalRejected ==
  [][\A p \in Procs, actor \in Managers, tid \in TransferIds, action \in Actions :
       ( /\ tid \in TransferSet
         /\ transfers[tid].to_user_id = actor
         /\ transfers[tid].status # "pending"
         /\ DecideStart(p, actor, tid, action) )
       => /\ response' = [op |-> "approve_transfer", answer |-> "InvalidState"]
          /\ Free(p)'
          /\ UNCHANGED dbVars]_vars

C5_Witness ==
  /\ response = [op |-> "approve_transfer", answer |-> "InvalidState"]
  /\ Quiescent
  /\ Len(transfers) = 1
  /\ transfers[1].status = "approved"
  /\ clock = 1
  /\ applied[1] = [debits |-> 1, credits |-> 1]

\* C6: a decide call of anyone but the transfer's recipient, the sender
\* included, is answered Forbidden and changes no transfer and no balance.
C6_OnlyRecipient ==
  [][\A p \in Procs, actor \in Managers, tid \in TransferIds, action \in Actions :
       ( /\ tid \in TransferSet
         /\ transfers[tid].to_user_id # actor
         /\ DecideStart(p, actor, tid, action) )
       => /\ response' = [op |-> "approve_transfer", answer |-> "Forbidden"]
          /\ Free(p)'
          /\ UNCHANGED dbVars]_vars

C6_Witness ==
  /\ response = [op |-> "approve_transfer", answer |-> "Forbidden"]
  /\ Quiescent
  /\ Len(transfers) = 1
  /\ transfers[1].status = "pending"
  /\ transfers[1].from_user_id # transfers[1].to_user_id

\* C7: every stored transfer has an amount greater than 0.
C7_PositiveAmount ==
  \A t \in TransferSet : transfers[t].amount > 0

\* C8: a transfer request that arrives while the sender's stored balance is
\* less than the amount is answered InsufficientBalance, whatever the other
\* workers are doing, and creates no transfer and changes no balance.
C8_Insufficient ==
  [][\A p \in Procs, actor \in Senders, to \in Recipients, amount \in TransferAmounts :
       ( /\ cash_balance[actor] < amount
         /\ TransferStart(p, actor, to, amount) )
       => /\ response' = [op |-> "create_transfer_request", answer |-> "InsufficientBalance"]
          /\ Free(p)'
          /\ UNCHANGED dbVars]_vars

C8_Witness ==
  /\ response = [op |-> "create_transfer_request", answer |-> "InsufficientBalance"]
  /\ \E p \in Procs : pc[p] = "d_credit"

\* C9: no transfer is marked approved while its sender has not been debited
\* or its recipient has not been credited.
C9_AllOrNothing ==
  \A t \in TransferSet :
    transfers[t].status = "approved" => applied[t].debits >= 1 /\ applied[t].credits >= 1

\* C10: a transfer request changes no balance and stores its transfer as
\* pending; a reject sets the status rejected, is answered at once and changes
\* no balance; a balance changes only in a step of a worker serving an approve.
C10_Frame ==
  [][ /\ \A p \in Procs, actor \in Senders, to \in Recipients, amount \in TransferAmounts :
           TransferStart(p, actor, to, amount) => cash_balance' = cash_balance
      /\ \A p \in Procs :
           TransferInsert(p) =>
             /\ cash_balance' = cash_balance
             /\ Len(transfers') = Len(transfers) + 1
             /\ transfers'[Len(transfers')].status = "pending"
             /\ response' = [op |-> "create_transfer_request", answer |-> "ok"]
      /\ \A p \in Procs :
           (DecideUpdate(p) /\ req[p].word = "reject") =>
             /\ transfers'[req[p].ref].status = "rejected"
             /\ cash_balance' = cash_balance
             /\ response' = [op |-> "approve_transfer", answer |-> "ok"]
             /\ Free(p)'
      /\ cash_balance' # cash_balance =>
           \E p \in Procs : /\ req[p].op = "approve_transfer"
                            /\ req[p].word = "approve"
                            /\ pc'[p] # pc[p] ]_vars

C10_Witness ==
  /\ Quiescent
  /\ Len(transfers) = 1
  /\ transfers[1].status = "rejected"
  /\ transfers[1].amount = 2
  /\ response = [op |-> "approve_transfer", answer |-> "ok"]
  /\ cash_balance = [m \in Managers |-> IF m = "M1" THEN 2 ELSE 0]

\* C11: in every reachable state each manager's balance is the sum of its
\* cash sales and of the credit payments it collected, plus the approved
\* transfers to it, minus the approved transfers from it.
C11_BalanceIsSum ==
  \A m \in Managers : cash_balance[m] = IncomeOf(m) + ApprovedTo(m) - ApprovedFrom(m)

\* C12: every stored sale has the status the data model gives for its
\* paid_amount, total_amount and payment_type: a credit sale with nothing paid
\* is pending, a sale paid in part is partial, a sale paid in full is settled.
C12_StatusFunction ==
  \A i \in 1..Len(sales) :
    LET sale == sales[i] IN
      /\ (sale.payment_type = "credit" /\ sale.paid_amount = 0) => sale.status = "pending"
      /\ (0 < sale.paid_amount /\ sale.paid_amount < sale.total_amount) => sale.status = "partial"
      /\ sale.paid_amount >= sale.total_amount => sale.status = "settled"

\* C13: no sale has more paid than its total.
C13_PaidWithinTotal ==
  \A i \in 1..Len(sales) : sales[i].paid_amount <= sales[i].total_amount

\* C14: once every record_payment call has completed, however the calls
\* interleaved, each credit sale's paid_amount is the sum of the payment
\* records that reference it, and each collector was credited what its
\* payment records say.
C14_PaymentAtomic ==
  Quiescent =>
    /\ \A i \in 1..Len(sales) :
         sales[i].payment_type = "credit" => sales[i].paid_amount = PaidInto(i)
    /\ \A m \in Managers : cash_balance[m] = IncomeOf(m) + MovedTo(m) - MovedFrom(m)

\* C15: no two sales carry the same sale_number.
C15_UniqueSaleNumbers ==
  \A i, j \in 1..Len(sales) : i # j => sales[i].sale_number # sales[j].sale_number

\* C16: create_sale stores a cash sale as settled with paid_amount equal to
\* its total and then adds exactly the total to the collector's balance; it
\* stores a credit sale as pending with paid_amount 0, answers, and changes
\* no balance in any of its steps.
C16_SaleCreation ==
  [][\A p \in Procs :
       /\ SaleInsert(p) =>
            LET sale == sales'[Len(sales')] IN
              /\ Len(sales') = Len(sales) + 1
              /\ sale.total_amount = req[p].amount
              /\ sale.collected_by = req[p].actor
              /\ cash_balance' = cash_balance
              /\ req[p].word = "cash" =>
                   /\ sale.status = "settled"
                   /\ sale.paid_amount = sale.total_amount
                   /\ pc'[p] = "s_inc"
              /\ req[p].word = "credit" =>
                   /\ sale.status = "pending"
                   /\ sale.paid_amount = 0
                   /\ Free(p)'
                   /\ response' = [op |-> "create_sale", answer |-> "ok"]
       /\ SaleInc(p) =>
            /\ req[p].word = "cash"
            /\ cash_balance'[req[p].actor] = cash_balance[req[p].actor] + req[p].amount
            /\ \A m \in Managers \ {req[p].actor} : cash_balance'[m] = cash_balance[m]
            /\ sales' = sales
            /\ Free(p)'
            /\ response' = [op |-> "create_sale", answer |-> "ok"]
       /\ LET r == IF Free(p) THEN req'[p] ELSE req[p] IN
            (pc'[p] # pc[p] /\ r.op = "create_sale" /\ r.word = "credit") =>
              cash_balance' = cash_balance ]_vars

C16_Witness ==
  /\ Quiescent
  /\ credit_payments = << >>
  /\ Len(sales) = 2
  /\ cash_balance = [m \in Managers |-> IF m = "M1" THEN 2 ELSE 0]
  /\ \E i, j \in 1..2 :
       /\ sales[i].payment_type = "cash" /\ sales[i].status = "settled"
       /\ sales[i].paid_amount = 2 /\ sales[i].collected_by = "M1"
       /\ sales[j].payment_type = "credit" /\ sales[j].status = "pending"
       /\ sales[j].paid_amount = 0

\* the answers that report a failure
Errors == {"NotFound", "Forbidden", "InvalidState", "InsufficientBalance", "InvalidArgument"}

\* C17: a call of request_transfer, decide_transfer or record_payment that
\* fails is answered in the step it arrived in and that step leaves balances,
\* sales, payments and transfers as they were; every write is a step of a
\* call that has already got past its checks.
C17_FailureChangesNothing ==
  [][LET answered == \/ nreq' = nreq + 1 /\ pc' = pc
                     \/ \E p \in Procs : ~Free(p) /\ Free(p)'
     IN /\ (answered /\ response'.answer \in Errors) =>
             /\ nreq' = nreq + 1
             /\ pc' = pc
             /\ UNCHANGED dbVars
        /\ dbVars' # dbVars => \E p \in Procs : ~Free(p) /\ pc'[p] # pc[p] ]_vars

C17_Witness ==
  /\ response = [op |-> "record_credit_payment", answer |-> "InvalidState"]
  /\ \E p \in Procs : pc[p] = "d_debit"
  /\ credit_payments = << >>
  /\ cash_balance = [m \in Managers |-> IF m = "M1" THEN 2 ELSE 0]

\* C18: no balance adjustment is lost, however sales, credit collections and
\* approvals on one manager interleave: in every state a manager's balance is
\* the sum of the deltas of all $inc calls run on it so far, that is its cash
\* sales and collected payments less those whose $inc is still to come, plus
\* the credits and minus the debits of the approvals run.
C18_NoLostAdjustment ==
  \A m \in Managers :
    cash_balance[m] = IncomeOf(m) - InFlightFor(m) + MovedTo(m) - MovedFrom(m)

C18_Witness ==
  \E p, q \in Procs :
    /\ pc[p] = "d_credit" /\ loc[p].from_user_id = "M1"
    /\ pc[q] = "c_inc" /\ req[q].actor = "M1" /\ req[q].amount = 1
    /\ cash_balance["M1"] = 0

\* C19: the sufficiency check looks at the sender's balance alone and only at
\* request time: a request of an amount the sender holds is accepted whatever
\* the sender has already pledged, the recipient's approve of a pending
\* transfer goes through whatever the sender holds by then, and the debit
\* takes the amount off whatever is left, below zero if need be.
C19_AdvisoryCheck ==
  [][ /\ \A p \in Procs, actor \in Senders, to \in Recipients :
           ( /\ cash_balance[actor] >= 2
             /\ to \in Managers
             /\ TransferStart(p, actor, to, 2) )
           => pc'[p] = "t_insert"
      /\ \A p \in Procs, actor \in Senders, tid \in TransferIds :
           ( /\ tid \in TransferSet
             /\ transfers[tid].to_user_id = actor
             /\ transfers[tid].status = "pending"
             /\ DecideStart(p, actor, tid, "approve") )
           => pc'[p] = "d_update"
      /\ \A p \in Procs :
           DecideDebit(p) =>
             cash_balance'[loc[p].from_user_id] =
               cash_balance[loc[p].from_user_id] - loc[p].amount ]_vars

C19_Witness ==
  /\ Quiescent
  /\ Len(transfers) = 2
  /\ \A t \in 1..2 :
       /\ transfers[t].from_user_id = "M1"
       /\ transfers[t].to_user_id = "M2"
       /\ transfers[t].amount = 2
       /\ transfers[t].status = "approved"
       /\ applied[t] = [debits |-> 1, credits |-> 1]
  /\ Len(sales) = 1
  /\ cash_balance["M1"] = -2
  /\ cash_balance["M2"] = 4

\* how far a sale status is along pending, partial, settled
StatusRank(status) ==
  IF status = "pending" THEN 0 ELSE IF status = "partial" THEN 1 ELSE 2

\* C20: a sale's status only moves forward along pending, partial, settled:
\* no step takes a settled sale back to partial or pending, or a partial
\* sale back to pending.
C20_StatusForward ==
  [][\A i \in 1..Len(sales) :
       StatusRank(sales'[i].status) >= StatusRank(sales[i].status)]_vars

\* C21: decide_transfer checks NotFound, then Forbidden, then InvalidState:
\* a call on an id no transfer has is answered NotFound, a call of anyone but
\* the recipient is answered Forbidden whatever the transfer's status, and
\* only the recipient's call on a decided transfer is answered InvalidState.
C21_ErrorOrder ==
  [][\A p \in Procs, actor \in Senders, tid \in TransferIds, action \in Decisions :
       DecideStart(p, actor, tid, action) =>
         LET answered == [op |-> "approve_transfer", answer |-> "none"] IN
           IF tid \notin TransferSet
             THEN Free(p)' /\ response' = [answered EXCEPT !.answer = "NotFound"]
           ELSE IF transfers[tid].to_user_id # actor
             THEN Free(p)' /\ response' = [answered EXCEPT !.answer = "Forbidden"]
           ELSE IF transfers[tid].status # "pending"
             THEN Free(p)' /\ response' = [answered EXCEPT !.answer = "InvalidState"]
           ELSE pc'[p] = "d_update" /\ response' = response ]_vars

C21_Witness ==
  /\ response = [op |-> "approve_transfer", answer |-> "Forbidden"]
  /\ Quiescent
  /\ nreq = 2
  /\ Len(transfers) = 1
  /\ transfers[1].status = "approved"
  /\ applied[1] = [debits |-> 1, credits |-> 1]

\* C22: a transfer a manager sends to itself is accepted and the manager can
\* approve it; once the calls are answered the approval has left every
\* balance where it was: each manager holds its income and what the
\* transfers between different managers moved, nothing more or less.
C22_SelfTransferNeutral ==
  Quiescent =>
    \A m \in Managers : cash_balance[m] = IncomeOf(m) + MovedWithOthers(m)

C22_Witness ==
  /\ Quiescent
  /\ response = [op |-> "approve_transfer", answer |-> "ok"]
  /\ Len(transfers) = 1
  /\ transfers[1].from_user_id = "M1"
  /\ transfers[1].to_user_id = "M1"
  /\ transfers[1].amount = 2
  /\ transfers[1].status = "approved"
  /\ applied[1] = [debits |-> 1, credits |-> 1]
  /\ cash_balance = [m \in Managers |-> IF m = "M1" THEN 2 ELSE 0]
====
